---- MODULE Spec2Model ----
(***************************************************************************)
(* A model of the command shell of cli_shell.py: the session driver        *)
(* (CommandShell.run, the __main__ block), the byte reader (getch), the    *)
(* line reader (get_input_with_immediate_help), the dispatcher             *)
(* (execute_command, execute_batch_command), the namespace resolver        *)
(* (load_commands, execute_cd) and the os.path functions they rest on.     *)
(* Two specifications: Spec follows a session byte by byte through getch   *)
(* and the ends of the process; SpecEdit follows the line editor, its       *)
(* history, the completion engine (handle_tab, completer) and the column    *)
(* of the screen cursor.                                                    *)
(*                                                                         *)
(* Text is modelled as it is in Python: a line is a sequence of one-       *)
(* character strings, split() and split('/') are computed, a path is the   *)
(* list of the fields between its slashes (so "cmd/test/." is             *)
(* <<"cmd","test",".">> and "/w" is <<"","w">>), and os.path.join,         *)
(* dirname, abspath and isdir are computed on that list.                   *)
(***************************************************************************)
EXTENDS Integers, Sequences, FiniteSets, TLC

VARIABLES
    pc,             \* position of the single thread of control
    batch_command,  \* the value of -c/--command: [given, value]
    is_batch_mode,  \* self.is_batch_mode
    current_path,   \* self.current_path, as the fields between its slashes
    commands,       \* self.commands: name -> entry
    going_quit,     \* self.going_quit
    term,           \* the mode of the controlling terminal
    line,           \* the line buffer of the current input request
    pos,            \* the cursor in the line buffer
    command,        \* what get_input_with_immediate_help returned to run()
    stdin,          \* bytes typed and not yet read
    parts,          \* execute_batch_command: the tokens of the batch line
    current,        \* execute_batch_command: index of the next token (0-based)
    success,        \* run(): the result of execute_batch_command
    exit_code,      \* the process exit status, -1 while it runs
    \* history of the run, written by the actions and read by the properties
    keys,           \* the last two bytes read by getch, oldest first
    restores,       \* tcsetattr(old_settings) calls since the last byte read began
    exit_reason,    \* why the session ended
    last_op,        \* the last dispatch: its tokens, the path and the snapshot
                    \* before, its outcome
    batch_log,      \* batch mode: its steps, in order
    cycles,         \* number of calls of execute_batch_command
    \* the line editor
    history,        \* self.history: the submitted lines, oldest first
    history_index,  \* self.history_index
    prompt,         \* the prompt of the current input request
    max_size_to_clear_in_a_line,    \* self.max_size_to_clear_in_a_line
    col,            \* the column of the terminal's cursor
    ev,             \* the last key the line editor handled, the state before it,
                    \* ups: k when the keys of this request are k Up keys, else -1,
                    \* help: what the dispatch made by `?` ended with
    shown,          \* the columns of the terminal's current row that hold a
                    \* character: 0..shown-1
    tty_error       \* the last failure of getch to switch the terminal's mode:
                    \* "acquire" (tty.setraw), "release" (tcsetattr), or "none"

vars == <<pc, batch_command, is_batch_mode, current_path, commands, going_quit,
          term, line, pos, command, stdin, parts, current, success, exit_code,
          keys, restores, exit_reason, last_op, batch_log, cycles,
          history, history_index, prompt, max_size_to_clear_in_a_line, col, ev,
          shown, tty_error>>

\* the variables of the line editor
edit_vars == <<history, history_index, prompt, max_size_to_clear_in_a_line, col, ev,
               shown>>

----------------------------------------------------------------------------
(* Bounds of the model. *)

\* longest current_path (in fields) the model lets a navigation build
MaxPathLen == 4

----------------------------------------------------------------------------
(* Text. *)

\* ''.join(chars)
RECURSIVE Str(_)
Str(chars) == IF chars = <<>> THEN "" ELSE Head(chars) \o Str(Tail(chars))

\* str.split(sep) for a one-character sep: the fields between the separators
RECURSIVE Fields(_, _)
Fields(s, sep) ==
    IF \A i \in 1..Len(s) : s[i] # sep
    THEN <<s>>
    ELSE LET i == CHOOSE k \in 1..Len(s) : s[k] = sep /\ \A j \in 1..(k-1) : s[j] # sep
         IN  <<SubSeq(s, 1, i-1)>> \o Fields(SubSeq(s, i+1, Len(s)), sep)

IsNonEmpty(f) == f # <<>>

\* str.split(): the maximal runs of non-blank characters
Tokens(s) == SelectSeq(Fields(s, " "), IsNonEmpty)

\* ' '.join(tokens)
RECURSIVE JoinSp(_)
JoinSp(toks) ==
    IF toks = <<>> THEN <<>>
    ELSE IF Len(toks) = 1 THEN toks[1]
    ELSE toks[1] \o <<" ">> \o JoinSp(Tail(toks))

\* a token as a path: the fields between its slashes, each a string
PathOf(tok) == LET f == Fields(tok, "/") IN [i \in 1..Len(f) |-> Str(f[i])]

----------------------------------------------------------------------------
(* The file system the shell runs in: directories are absolute, <<>> is /. *)

\* os.getcwd(): the directory the shell is started in
Cwd == <<"w">>

\* os.path.abspath('cmd'): the root command directory
RootDir == Cwd \o <<"cmd">>

Dirs == { <<>>, <<"w">>, <<"w", "cmd">>, <<"w", "cmd", "test">>,
          <<"w", "cmd", "test", "usb">>,
          <<"w", "cmd", "hw">>, <<"w", "cmd", "hw", "cpudir">>,
          <<"w", "cmd", "hw", "cpudir", "cpu">> }

\* the leaf command files cmd_<name>.py of a directory that define
\* setup_parser and execute
LeafFiles(d) ==
    CASE d = <<"w", "cmd">>                -> {"hello"}
      [] d = <<"w", "cmd", "test">>        -> {"info", "run", "usb"}
      [] d = <<"w", "cmd", "test", "usb">> -> {"run"}
      [] d = <<"w", "cmd", "hw">>          -> {"cpu", "usb"}
      [] d = <<"w", "cmd", "hw", "cpudir">> -> {"cpu"}
      [] OTHER                             -> {}

\* the child directories of a directory
SubDirs(d) == { n \in {"w", "cmd", "test", "usb", "hw", "cpudir", "cpu"} :
                  (d \o <<n>>) \in Dirs }

NoDir == <<"?">>

Front(s) == SubSeq(s, 1, Len(s) - 1)

IsAbs(p) == Len(p) >= 2 /\ p[1] = ""

\* the directory a path names when the kernel walks it from `at`
RECURSIVE Walk(_, _)
Walk(at, p) ==
    IF p = <<>> \/ at = NoDir THEN at
    ELSE LET c == Head(p)
             to == IF c = "" \/ c = "." THEN at
                   ELSE IF c = ".." THEN (IF at = <<>> THEN at ELSE Front(at))
                   ELSE IF (at \o <<c>>) \in Dirs THEN at \o <<c>>
                   ELSE NoDir
         IN  Walk(to, Tail(p))

Resolve(p) == IF p = <<"">> THEN NoDir
              ELSE IF IsAbs(p) THEN Walk(<<>>, p) ELSE Walk(Cwd, p)

\* os.path.isdir
isdir(p) == Resolve(p) # NoDir

\* os.path.join(a, b)
join(a, b) ==
    IF IsAbs(b) THEN b
    ELSE IF a = <<"">> THEN b
    ELSE IF a[Len(a)] = "" THEN Front(a) \o b
    ELSE a \o b

\* drop the trailing empty fields (rstrip('/'))
RECURSIVE RStrip(_)
RStrip(p) == IF p # <<>> /\ p[Len(p)] = "" THEN RStrip(Front(p)) ELSE p

\* os.path.dirname(p)
dirname(p) ==
    LET head == Front(p)
    IN  IF head = <<>> THEN <<"">>
        ELSE IF \A i \in 1..Len(head) : head[i] = "" THEN head \o <<"">>
        ELSE RStrip(head)

\* os.path.normpath on an absolute path: a lexical walk
RECURSIVE Norm(_, _)
Norm(at, p) ==
    IF p = <<>> THEN at
    ELSE LET c == Head(p)
             to == IF c = "" \/ c = "." THEN at
                   ELSE IF c = ".." THEN (IF at = <<>> THEN at ELSE Front(at))
                   ELSE at \o <<c>>
         IN  Norm(to, Tail(p))

\* os.path.abspath(p), as a directory
abspath(p) == IF IsAbs(p) THEN Norm(<<>>, p) ELSE Norm(Cwd, p)

----------------------------------------------------------------------------
(* The namespace snapshot. *)

\* an entry of self.commands: the (module, parser) pair, named by where it
\* was made
BuiltinEntry(name) == [kind |-> "builtin", name |-> name, origin |-> NoDir]
LeafEntry(name, d) == [kind |-> "leaf", name |-> name, origin |-> d]

\* add_builtin_commands: the snapshot before the first load
add_builtin_commands == [n \in {"info"} |-> BuiltinEntry("info")]

\* os.listdir: the order in which the file system lists names. It is the
\* file system's own order, not an alphabetical one.
Listing == <<"usb", "run", "cpudir", "hello", "test", "info", "hw", "cpu",
             "cmd", "w">>

\* the names of a set in the order of the listing
Listed(names) == SelectSeq(Listing, LAMBDA n : n \in names)

\* a membership test that finds nothing
HasNone(seq, x) == FALSE

\* x in seq
Has(seq, x) == \E i \in 1..Len(seq) : seq[i] = x

\* get_available_dirs: the child directories, in the order of the listing
get_available_dirs(path) == Listed(SubDirs(Resolve(path)))

\* a load_commands that adds cd whether or not there is a child directory
load_commands_with_cd(cmds, path) ==
    LET d           == Resolve(path)
        has_info    == "info" \in DOMAIN cmds
        names       == (IF has_info THEN {"info"} ELSE {}) \cup {"cd"}
                       \cup LeafFiles(d)
    IN  [n \in names |->
            IF n \in LeafFiles(d) THEN LeafEntry(n, d)
            ELSE IF n = "cd" THEN BuiltinEntry("cd")
            ELSE cmds["info"]]

\* load_commands: the snapshot for `path`, given the snapshot before
load_commands(cmds, path) ==
    LET d           == Resolve(path)
        has_info    == "info" \in DOMAIN cmds
        has_subdirs == SubDirs(d) # {}
        names       == (IF has_info THEN {"info"} ELSE {})
                       \cup (IF has_subdirs THEN {"cd"} ELSE {})
                       \cup LeafFiles(d)
    IN  [n \in names |->
            IF n \in LeafFiles(d) THEN LeafEntry(n, d)
            ELSE IF n = "cd" /\ has_subdirs THEN BuiltinEntry("cd")
            ELSE cmds["info"]]

\* a cd that falls back to the parent when the directory is not found
execute_cd_fallback(path, cmds, target_path) ==
    IF target_path = <<"..">>
    THEN LET np == IF abspath(path) # abspath(<<"cmd">>) THEN dirname(path) ELSE path
         IN  [path |-> np, commands |-> load_commands(cmds, np), moved |-> TRUE]
    ELSE LET new_path == join(path, target_path)
         IN  IF isdir(new_path)
             THEN [path |-> new_path, commands |-> load_commands(cmds, new_path),
                   moved |-> TRUE]
             ELSE [path |-> dirname(path),
                   commands |-> load_commands(cmds, dirname(path)), moved |-> FALSE]

\* execute_cd: the new path and snapshot; moved is FALSE for "Directory not
\* found"
execute_cd(path, cmds, target_path) ==
    IF target_path = <<"..">>
    THEN LET np == IF abspath(path) # abspath(<<"cmd">>) THEN dirname(path) ELSE path
         IN  [path |-> np, commands |-> load_commands(cmds, np), moved |-> TRUE]
    ELSE LET new_path == join(path, target_path)
         IN  IF isdir(new_path)
             THEN [path |-> new_path, commands |-> load_commands(cmds, new_path),
                   moved |-> TRUE]
             ELSE [path |-> path, commands |-> cmds, moved |-> FALSE]

----------------------------------------------------------------------------
(* Option schemas and argparse. *)

\* the options that take a value, and the number of required positionals,
\* of the parser a leaf's setup_parser builds
Schema(name) ==
    CASE name = "hello" -> [flags |-> {"--name", "--count"}, npos |-> 0]
      [] name = "run"   -> [flags |-> {}, npos |-> 1]
      [] OTHER          -> [flags |-> {}, npos |-> 0]

\* parser.parse_args(args) for a leaf: "ok", or "help" / "usage" (both leave
\* by SystemExit)
RECURSIVE ParseFrom(_, _, _)
ParseFrom(schema, args, npos) ==
    IF args = <<>> THEN (IF npos = schema.npos THEN "ok" ELSE "usage")
    ELSE LET a == Str(Head(args))
         IN  IF a \in {"-h", "--help"} THEN "help"
             ELSE IF Head(Head(args)) = "-"
                  THEN IF a \in schema.flags /\ Len(args) >= 2
                       THEN ParseFrom(schema, Tail(Tail(args)), npos)
                       ELSE "usage"
                  ELSE ParseFrom(schema, Tail(args), npos + 1)

parse_args(name, args) == ParseFrom(Schema(name), args, 0)

\* create_cd_parser().parse_args(args): one optional positional, path
parse_cd(args) ==
    IF \E i \in 1..Len(args) : Str(args[i]) \in {"-h", "--help"} THEN "help"
    ELSE IF args = <<>> \/ (Len(args) = 1 /\ Head(args[1]) # "-") THEN "ok"
    ELSE "usage"

\* args.path of a parsed cd line
cd_path(args) == IF args = <<>> THEN <<"..">> ELSE PathOf(args[1])

\* the info parser of add_builtin_commands
parse_info(args) ==
    IF \E i \in 1..Len(args) : Str(args[i]) \in {"-h", "--help"} THEN "help"
    ELSE IF \A i \in 1..Len(args) : Str(args[i]) \in {"-a", "--all", "-p", "--path"}
    THEN "ok" ELSE "usage"

----------------------------------------------------------------------------
(* The dispatcher. *)

\* what a leaf's execute can do
Outcomes == {"ok", "raise"}

\* execute_command(command_line): the path and snapshot after it, and what
\* happened:
\*   "empty"    nothing to do            "nav"     a navigation was performed
\*   "navfail"  Directory not found      "unknown" Unknown command
\*   "usage"    the parser left by SystemExit on a usage error
\*   "help"     the parser left by SystemExit after printing its help
\*   "ok"       the command ran          "raise"   execute raised, caught here
\*   "error"    an exception left execute_command
\* `out` is what the leaf's execute does if it is reached.
execute_command(path, cmds, command_line, out) ==
    LET tokens == Tokens(command_line)
        same(st) == [path |-> path, commands |-> cmds, status |-> st]
        cd(target) == LET r == execute_cd(path, cmds, target)
                      IN  [path |-> r.path, commands |-> r.commands,
                           status |-> IF r.moved THEN "nav" ELSE "navfail"]
    IN  IF tokens = <<>> THEN same("empty")
        ELSE LET command_name == Str(tokens[1])
                 args == Tail(tokens)
             IN  IF command_name = ".." THEN cd(<<"..">>)
                 ELSE IF Has(get_available_dirs(path), command_name)
                      THEN cd(<<command_name>>)
                 ELSE IF command_name \notin DOMAIN cmds THEN same("unknown")
                 ELSE IF command_name = "cd"
                      THEN IF parse_cd(args) # "ok" THEN same(parse_cd(args))
                           ELSE cd(cd_path(args))
                 ELSE IF command_name = "info"
                      THEN IF cmds["info"].kind = "builtin"
                           THEN same(parse_info(args))
                           ELSE IF parse_args("info", args) # "ok"
                                THEN same(parse_args("info", args))
                                ELSE same("error")
                 ELSE IF parse_args(command_name, args) # "ok"
                      THEN same(parse_args(command_name, args))
                 ELSE same(out)

----------------------------------------------------------------------------
(* Bytes and the inputs of the model. *)

\* the control bytes getch can return, by name
ETX == "^C"     \* 0x03
EOT == "^D"     \* 0x04
CR  == "^M"     \* 0x0d
LF  == "^J"     \* 0x0a
DEL == "^?"     \* 0x7f

\* ord(c) >= 32
Printable(c) == c \notin {ETX, EOT, CR, LF, DEL, "^[", "^I", "^A"}

\* words, as characters
W_cd     == <<"c", "d">>
W_up     == <<".", ".">>
W_upup   == <<".", ".", "/", ".", ".">>
W_dot    == <<".">>
W_slash  == <<"/">>
W_test   == <<"t", "e", "s", "t">>
W_usb    == <<"u", "s", "b">>
W_hello  == <<"h", "e", "l", "l", "o">>
W_run    == <<"r", "u", "n">>
W_all    == <<"a", "l", "l">>
W_info   == <<"i", "n", "f", "o">>
W_exit   == <<"e", "x", "i", "t">>
W_zz     == <<"z", "z">>
W_x      == <<"-", "x">>
SP       == <<" ">>

\* what the user types in one go in interactive mode
Scripts ==
    { <<ETX>>, <<EOT>>, <<CR>>, <<"z", ETX>>, <<"z", EOT, DEL, DEL, CR>>,
      W_up \o <<CR>>,
      W_test \o <<CR>>,
      W_usb \o <<LF>>,
      W_usb \o SP \o W_run \o <<CR>>,
      W_cd \o SP \o W_up \o <<CR>>,
      W_cd \o SP \o W_upup \o <<CR>>,
      W_cd \o SP \o W_dot \o <<CR>>,
      W_cd \o SP \o W_slash \o <<CR>>,
      W_cd \o SP \o W_zz \o <<CR>>,
      W_hello \o <<CR>>,
      W_hello \o SP \o W_x \o <<CR>>,
      W_run \o SP \o W_all \o <<CR>>,
      W_info \o <<CR>>,
      W_zz \o <<CR>>,
      W_exit \o <<CR>> }

\* the values of -c/--command the model starts with
BatchLines ==
    { <<>>, SP,
      W_hello,
      W_zz,
      W_hello \o SP \o W_x,
      W_test \o SP \o W_usb \o SP \o W_run \o SP \o W_all,
      W_test \o SP \o W_usb,
      W_test \o SP \o W_info,
      W_test \o SP \o W_up \o SP \o W_info,
      W_hello \o SP \o W_test,
      W_cd \o SP \o W_test,
      W_upup \o SP \o W_hello,
      W_up \o SP \o W_hello }

\* args.command of the __main__ block: None without the flag
NoCommand == [given |-> FALSE, value |-> <<>>]
BatchCommand(v) == [given |-> TRUE, value |-> v]

\* what get_input_with_immediate_help returns for Ctrl-D: None
NoLine == <<"None">>

----------------------------------------------------------------------------
(* The terminal. *)

\* self.old_settings = termios.tcgetattr(sys.stdin): the mode at construction
old_settings == "cooked"

\* tty.setraw
setraw(t) == "raw"

\* a restore that writes back the mode the terminal is in (as if the
\* settings had been captured after tty.setraw)
tcsetattr_current(t) == t

\* termios.tcsetattr(sys.stdin, termios.TCSADRAIN, self.old_settings)
tcsetattr(t) == old_settings

----------------------------------------------------------------------------
(* The state after construction. *)

NoOp == [tokens |-> <<>>, from |-> <<>>, commands |-> <<>>, status |-> "none"]

\* no key handled yet in the current input request
NoKey == [key |-> "none", c |-> "", line |-> <<>>, pos |-> 0, history |-> <<>>,
          history_index |-> 0, completions |-> <<>>, ups |-> 0,
          path |-> <<>>, commands |-> <<>>, help |-> "none", widest |-> 0]

\* the last two of the bytes read, after one more; a byte is recorded as
\* the interrupt byte or as some other key
Last2(ks, c) == LET k == IF c = ETX THEN ETX ELSE "key"
                IN  IF Len(ks) < 2 THEN Append(ks, k) ELSE <<ks[2], k>>

Init ==
    /\ pc = "run"
    /\ batch_command \in {NoCommand} \cup { BatchCommand(v) : v \in BatchLines }
    /\ is_batch_mode = FALSE
    /\ current_path = <<"cmd">>
    /\ commands = load_commands(add_builtin_commands, <<"cmd">>)
    /\ going_quit = FALSE
    /\ term = old_settings
    /\ line = <<>>
    /\ pos = 0
    /\ command = <<>>
    /\ stdin = <<>>
    /\ parts = <<>>
    /\ current = 0
    /\ success = FALSE
    /\ exit_code = -1
    /\ keys = <<>>
    /\ restores = 0
    /\ exit_reason = "none"
    /\ last_op = NoOp
    /\ batch_log = <<>>
    /\ cycles = 0
    /\ history = <<>>
    /\ history_index = 0
    /\ prompt = ""
    /\ max_size_to_clear_in_a_line = 1
    /\ col = 0
    /\ ev = NoKey
    /\ shown = 0
    /\ tty_error = "none"

----------------------------------------------------------------------------
(* run(): the choice of the mode. *)

\* `if self.batch_command:` - the truth value of the -c argument
IsBatch(bc) == bc.given /\ bc.value # <<>>

Run ==
    /\ pc = "run"
    /\ IF IsBatch(batch_command)
       THEN /\ is_batch_mode' = TRUE
            /\ cycles' = cycles + 1
            /\ parts' = Tokens(batch_command.value)
            /\ current' = 0
            /\ IF Tokens(batch_command.value) = <<>>
               THEN success' = FALSE /\ pc' = "batch_exit"
               ELSE success' = success /\ pc' = "batch_loop"
       ELSE /\ is_batch_mode' = FALSE
            /\ pc' = "prompt"
            /\ UNCHANGED <<cycles, parts, current, success>>
    /\ UNCHANGED <<batch_command, current_path, commands, going_quit, term, line,
                   pos, command, stdin, exit_code, keys, restores, exit_reason,
                   last_op, batch_log>>
    /\ UNCHANGED <<edit_vars, tty_error>>

----------------------------------------------------------------------------
(* execute_batch_command: one action per turn of its loop. *)

\* the test of the loop body: is the next token a directory from here
BatchIsDir(path, tok) == isdir(join(path, PathOf(tok)))

\* the `try` of the loop body for a directory token
BatchNav ==
    /\ pc = "batch_loop"
    /\ current < Len(parts)
    /\ BatchIsDir(current_path, parts[current + 1])
    /\ LET r == execute_cd(current_path, commands, PathOf(parts[current + 1]))
       IN  /\ Len(r.path) <= MaxPathLen
           /\ current_path' = r.path
           /\ commands' = r.commands
    /\ current' = current + 1
    /\ batch_log' = Append(batch_log, [op |-> "nav", tokens |-> <<parts[current + 1]>>,
                                       from |-> current_path])
    /\ UNCHANGED <<pc, batch_command, is_batch_mode, going_quit, term, line, pos,
                   command, stdin, parts, success, exit_code, keys, restores,
                   exit_reason, last_op, cycles>>
    /\ UNCHANGED <<edit_vars, tty_error>>

\* the whole of parts, as if the tokens consumed as directories were kept
RemainingAll(ps, cur) == ps

\* the words of parts[current:]
Remaining(ps, cur) == SubSeq(ps, cur + 1, Len(ps))

\* the result of execute_batch_command after execute_command ended with
\* status st
BatchResult(st) == st # "error"

\* the rest of the loop body: the remaining tokens as one command
BatchDispatch ==
    /\ pc = "batch_loop"
    /\ current < Len(parts)
    /\ ~BatchIsDir(current_path, parts[current + 1])
    /\ \E out \in Outcomes :
         LET remaining_command == JoinSp(Remaining(parts, current))
             r == execute_command(current_path, commands, remaining_command, out)
         IN  /\ Len(r.path) <= MaxPathLen
             /\ current_path' = r.path
             /\ commands' = r.commands
             /\ success' = BatchResult(r.status)
             /\ last_op' = [tokens |-> Tokens(remaining_command),
                            from |-> current_path, commands |-> commands,
                            status |-> r.status]
             /\ batch_log' = Append(batch_log,
                                [op |-> "dispatch", tokens |-> Tokens(remaining_command),
                                 from |-> current_path])
    /\ pc' = "batch_exit"
    /\ UNCHANGED <<batch_command, is_batch_mode, going_quit, term, line, pos,
                   command, stdin, parts, current, exit_code, keys, restores,
                   exit_reason, cycles>>
    /\ UNCHANGED <<edit_vars, tty_error>>

\* the loop ran out of tokens: every token was a directory
BatchLoopEnd ==
    /\ pc = "batch_loop"
    /\ current >= Len(parts)
    /\ success' = TRUE
    /\ pc' = "batch_exit"
    /\ UNCHANGED <<batch_command, is_batch_mode, current_path, commands, going_quit,
                   term, line, pos, command, stdin, parts, current, exit_code, keys,
                   restores, exit_reason, last_op, batch_log, cycles>>
    /\ UNCHANGED <<edit_vars, tty_error>>

\* sys.exit(0 if success else 1)
ExitStatus(ok) == IF ok THEN 0 ELSE 1

\* run(), batch branch, after execute_batch_command
BatchExit ==
    /\ pc = "batch_exit"
    /\ term' = tcsetattr(term)
    /\ restores' = restores + 1
    /\ exit_code' = ExitStatus(success)
    /\ exit_reason' = "batch"
    /\ pc' = "done"
    /\ UNCHANGED <<batch_command, is_batch_mode, current_path, commands, going_quit,
                   line, pos, command, stdin, parts, current, success, keys,
                   last_op, batch_log, cycles>>
    /\ UNCHANGED <<edit_vars, tty_error>>

----------------------------------------------------------------------------
(* Interactive mode: the read-eval loop of run(), the line reader and getch. *)
(* The bytes of an escape sequence, Tab and `?` are not among the bytes     *)
(* this part of the model types; the history log and the screen are        *)
(* followed by the specification of the line editor, SpecEdit, below.       *)

\* the positions of the interactive loop
LoopPcs == {"prompt", "getch_c", "read_c", "eval", "getch_q", "read_q"}

\* run(): prompt = self.get_prompt(), and the start of
\* get_input_with_immediate_help
Prompt ==
    /\ pc = "prompt"
    /\ line' = <<>>
    /\ pos' = 0
    /\ last_op' = NoOp
    /\ pc' = "getch_c"
    /\ UNCHANGED <<batch_command, is_batch_mode, current_path, commands, going_quit,
                   term, command, stdin, parts, current, success, exit_code, keys,
                   restores, exit_reason, batch_log, cycles>>
    /\ UNCHANGED <<edit_vars, tty_error>>

\* getch: tty.setraw, then the process blocks in sys.stdin.read(1)
GetchRaw ==
    /\ pc \in {"getch_c", "getch_q"}
    /\ term' = setraw(term)
    /\ restores' = 0
    /\ pc' = IF pc = "getch_c" THEN "read_c" ELSE "read_q"
    /\ UNCHANGED <<batch_command, is_batch_mode, current_path, commands, going_quit,
                   line, pos, command, stdin, parts, current, success, exit_code,
                   keys, exit_reason, last_op, batch_log, cycles>>
    /\ UNCHANGED <<edit_vars, tty_error>>

\* the user types while the shell waits for a byte
Type ==
    /\ pc \in {"read_c", "read_q"}
    /\ stdin = <<>>
    /\ \E s \in Scripts : stdin' = s
    /\ UNCHANGED <<pc, batch_command, is_batch_mode, current_path, commands,
                   going_quit, term, line, pos, command, parts, current, success,
                   exit_code, keys, restores, exit_reason, last_op, batch_log, cycles>>
    /\ UNCHANGED <<edit_vars, tty_error>>

\* an insert that always adds at the end of the line
InsertAtEnd(l, p, c) == Append(l, c)

\* line.insert(pos, c)
Insert(l, p, c) == SubSeq(l, 1, p) \o <<c>> \o SubSeq(l, p + 1, Len(l))

\* line.pop(pos-1)
Pop(l, p) == SubSeq(l, 1, p - 1) \o SubSeq(l, p + 1, Len(l))

\* run(): the KeyboardInterrupt handler up to its getch: TRUE when it breaks
InterruptBreaks(gq) == gq

\* one turn of the loop of get_input_with_immediate_help: getch returns the
\* next byte with the terminal restored, and the byte is handled
ReadKey ==
    /\ pc = "read_c"
    /\ stdin # <<>>
    /\ LET c == Head(stdin)
       IN  /\ stdin' = Tail(stdin)
           /\ term' = tcsetattr(term)
           /\ restores' = restores + 1
           /\ keys' = Last2(keys, c)
           /\ IF c = ETX
              THEN /\ line' = <<>>
                   /\ IF InterruptBreaks(going_quit)
                      THEN /\ pc' = "finally"
                           /\ exit_reason' = "interrupt"
                           /\ UNCHANGED going_quit
                      ELSE /\ going_quit' = TRUE
                           /\ pc' = "getch_q"
                           /\ UNCHANGED exit_reason
                   /\ UNCHANGED <<pos, command>>
              ELSE IF c = EOT
              THEN /\ IF line = <<>>
                      THEN command' = NoLine /\ pc' = "eval"
                      ELSE command' = command /\ pc' = "getch_c"
                   /\ UNCHANGED <<line, pos, going_quit, exit_reason>>
              ELSE IF c = DEL
              THEN /\ IF pos > 0
                      THEN line' = Pop(line, pos) /\ pos' = pos - 1
                      ELSE UNCHANGED <<line, pos>>
                   /\ pc' = "getch_c"
                   /\ UNCHANGED <<command, going_quit, exit_reason>>
              ELSE IF c = CR \/ c = LF
              THEN /\ command' = line
                   /\ pc' = "eval"
                   /\ UNCHANGED <<line, pos, going_quit, exit_reason>>
              ELSE /\ Printable(c)
                   /\ line' = Insert(line, pos, c)
                   /\ pos' = pos + 1
                   /\ pc' = "getch_c"
                   /\ UNCHANGED <<command, going_quit, exit_reason>>
    /\ UNCHANGED <<batch_command, is_batch_mode, current_path, commands, parts,
                   current, success, exit_code, last_op, batch_log, cycles>>
    /\ UNCHANGED <<edit_vars, tty_error>>

\* an exit keyword that is never recognised
IsExitNever(cmd) == FALSE

\* run(): command.strip() == 'exit'
IsExit(cmd) == Tokens(cmd) = <<W_exit>>

\* a dispatch whose failures end the loop
AfterDispatchFatal(st) ==
    IF st \in {"unknown", "usage", "raise", "error"} THEN "finally" ELSE "prompt"

\* run(): where the loop goes after execute_command: SystemExit and
\* Exception are caught in execute_command, any other Exception by the
\* loop's own handler, and the loop goes round
AfterDispatch(st) == "prompt"

\* run(): what the loop body does with the returned line
Eval ==
    /\ pc = "eval"
    /\ \/ /\ command = NoLine
          /\ pc' = "finally"
          /\ exit_reason' = "eof"
          /\ UNCHANGED <<current_path, commands, last_op>>
       \/ /\ command # NoLine
          /\ IsExit(command)
          /\ pc' = "finally"
          /\ exit_reason' = "exit"
          /\ UNCHANGED <<current_path, commands, last_op>>
       \/ /\ command # NoLine
          /\ ~IsExit(command)
          /\ Tokens(command) # <<>>
          /\ \E out \in Outcomes :
               LET r == execute_command(current_path, commands, command, out)
               IN  /\ Len(r.path) <= MaxPathLen
                   /\ current_path' = r.path
                   /\ commands' = r.commands
                   /\ last_op' = [tokens |-> Tokens(command), from |-> current_path,
                                  commands |-> commands, status |-> r.status]
                   /\ pc' = AfterDispatch(r.status)
          /\ UNCHANGED exit_reason
       \/ /\ command # NoLine
          /\ Tokens(command) = <<>>
          /\ pc' = "prompt"
          /\ UNCHANGED <<current_path, commands, last_op, exit_reason>>
    /\ command' = <<>>      \* the local is dead until the next line is returned
    /\ UNCHANGED <<batch_command, is_batch_mode, going_quit, term, line, pos,
                   stdin, parts, current, success, exit_code, keys,
                   restores, batch_log, cycles>>
    /\ UNCHANGED <<edit_vars, tty_error>>

\* run(): the getch of the KeyboardInterrupt handler returns a byte, which
\* is dropped, and the loop goes on
ReadArmed ==
    /\ pc = "read_q"
    /\ stdin # <<>>
    /\ stdin' = Tail(stdin)
    /\ term' = tcsetattr(term)
    /\ restores' = restores + 1
    /\ keys' = Last2(keys, Head(stdin))
    /\ pc' = "prompt"
    /\ UNCHANGED <<batch_command, is_batch_mode, current_path, commands, going_quit,
                   line, pos, command, parts, current, success, exit_code,
                   exit_reason, last_op, batch_log, cycles>>
    /\ UNCHANGED <<edit_vars, tty_error>>

\* getch: tty.setraw raises; the finally clause restores the terminal and
\* its `return ch` raises UnboundLocalError in place of the first error. In
\* the loop body that is caught by `except Exception` and the loop goes
\* round; in the KeyboardInterrupt handler nothing catches it
GetchSetrawFails ==
    /\ pc \in {"getch_c", "getch_q"}
    /\ term' = tcsetattr(term)
    /\ restores' = 1
    /\ tty_error' = "acquire"
    /\ IF pc = "getch_c"
       THEN pc' = "prompt" /\ UNCHANGED exit_reason
       ELSE pc' = "finally" /\ exit_reason' = "error"
    /\ UNCHANGED <<batch_command, is_batch_mode, current_path, commands, going_quit,
                   line, pos, command, stdin, parts, current, success, exit_code,
                   keys, last_op, batch_log, cycles>>
    /\ UNCHANGED edit_vars

\* getch: the byte is read and termios.tcsetattr raises in the finally
\* clause: the terminal stays raw, the byte is lost with the line, and the
\* error goes the way of GetchSetrawFails
GetchRestoreFails ==
    /\ pc \in {"read_c", "read_q"}
    /\ stdin # <<>>
    /\ stdin' = Tail(stdin)
    /\ tty_error' = "release"
    /\ IF pc = "read_c"
       THEN pc' = "prompt" /\ UNCHANGED exit_reason
       ELSE pc' = "finally" /\ exit_reason' = "error"
    /\ UNCHANGED <<batch_command, is_batch_mode, current_path, commands, going_quit,
                   term, line, pos, command, parts, current, success, exit_code,
                   keys, restores, last_op, batch_log, cycles>>
    /\ UNCHANGED edit_vars

\* a SIGINT from outside reaches the process while it is blocked in read(1)
\* with no byte to read:
\* getch's finally restores the terminal and its `return ch` fails on the
\* unassigned ch, an Exception. In the line reader that is caught by run()'s
\* `except Exception` and the loop goes on; in the handler's getch nothing
\* catches it and it leaves the loop.
Sigint ==
    /\ pc \in {"read_c", "read_q"}
    /\ stdin = <<>>
    /\ term' = tcsetattr(term)
    /\ restores' = restores + 1
    /\ IF pc = "read_c"
       THEN pc' = "prompt" /\ UNCHANGED exit_reason
       ELSE pc' = "finally" /\ exit_reason' = "error"
    /\ UNCHANGED <<batch_command, is_batch_mode, current_path, commands, going_quit,
                   line, pos, command, stdin, parts, current, success, exit_code,
                   keys, last_op, batch_log, cycles>>
    /\ UNCHANGED <<edit_vars, tty_error>>

\* run(): the finally clause of the loop
Finally ==
    /\ pc = "finally"
    /\ term' = tcsetattr(term)
    /\ restores' = restores + 1
    /\ IF exit_reason = "error"
       THEN pc' = "done" /\ exit_code' = 1
       ELSE pc' = "tail" /\ UNCHANGED exit_code
    /\ UNCHANGED <<batch_command, is_batch_mode, current_path, commands, going_quit,
                   line, pos, command, stdin, parts, current, success, keys,
                   exit_reason, last_op, batch_log, cycles>>
    /\ UNCHANGED <<edit_vars, tty_error>>

\* run(): the statement after the try statement, and the end of the process
AfterFinally ==
    /\ pc = "tail"
    /\ term' = tcsetattr(term)
    /\ restores' = restores + 1
    /\ exit_code' = 0
    /\ pc' = "done"
    /\ UNCHANGED <<batch_command, is_batch_mode, current_path, commands, going_quit,
                   line, pos, command, stdin, parts, current, success, keys,
                   exit_reason, last_op, batch_log, cycles>>
    /\ UNCHANGED <<edit_vars, tty_error>>

----------------------------------------------------------------------------

Next ==
    \/ Run
    \/ BatchNav
    \/ BatchDispatch
    \/ BatchLoopEnd
    \/ BatchExit
    \/ Prompt
    \/ GetchRaw
    \/ Type
    \/ ReadKey
    \/ Eval
    \/ ReadArmed
    \/ GetchSetrawFails
    \/ GetchRestoreFails
    \/ Sigint
    \/ Finally
    \/ AfterFinally

Spec == Init /\ [][Next]_vars

----------------------------------------------------------------------------
(* Text of the completion engine. *)

\* the characters of the model, in the order of their code points
Alphabet == <<" ", "-", ".", "/", "?", "a", "b", "c", "d", "e", "f", "g", "h",
              "i", "j", "k", "l", "m", "n", "o", "p", "q", "r", "s", "t", "u",
              "v", "w", "x", "y", "z">>

\* the place of each character in that order
Places == [c \in { Alphabet[i] : i \in 1..Len(Alphabet) } |->
              CHOOSE i \in 1..Len(Alphabet) : Alphabet[i] = c]

\* ord(c), up to an order-preserving renumbering
Ord(c) == Places[c]

\* a < b for two strings
Less(a, b) ==
    \E k \in 1..(Len(a) + 1) :
        /\ k <= Len(b)
        /\ SubSeq(a, 1, k - 1) = SubSeq(b, 1, k - 1)
        /\ k = Len(a) + 1 \/ Ord(a[k]) < Ord(b[k])

\* s without its element i
Without(s, i) == SubSeq(s, 1, i - 1) \o SubSeq(s, i + 1, Len(s))

\* sorted(list)
RECURSIVE sorted(_)
sorted(s) ==
    IF s = <<>> THEN <<>>
    ELSE LET i == CHOOSE k \in 1..Len(s) :
                      /\ \A j \in 1..Len(s) : ~Less(s[j], s[k])
                      /\ \A j \in 1..(k - 1) : s[j] # s[k]
         IN  <<s[i]>> \o sorted(Without(s, i))

\* s.startswith(t)
startswith(s, t) == Len(t) <= Len(s) /\ SubSeq(s, 1, Len(t)) = t

\* a commonprefix that finds nothing in common
noprefix(m) == <<>>

\* os.path.commonprefix(m): the longest prefix min(m) and max(m) share
commonprefix(m) ==
    IF m = <<>> THEN <<>>
    ELSE LET sm == sorted(m)
             s1 == sm[1]
             s2 == sm[Len(m)]
             n  == CHOOSE k \in 0..Len(s1) :
                       /\ k <= Len(s2)
                       /\ SubSeq(s1, 1, k) = SubSeq(s2, 1, k)
                       /\ k = Len(s1) \/ k = Len(s2) \/ s1[k + 1] # s2[k + 1]
         IN  SubSeq(s1, 1, n)

\* the names of the file system and of the built-ins, as characters
W_cpu    == <<"c", "p", "u">>
W_cpudir == <<"c", "p", "u", "d", "i", "r">>
W_hw     == <<"h", "w">>
W_cmd    == <<"c", "m", "d">>
W_w      == <<"w">>

Words == {W_cd, W_test, W_usb, W_hello, W_run, W_info, W_cpu, W_cpudir, W_hw,
          W_cmd, W_w}

\* a name as characters
Chars(n) == CHOOSE w \in Words : Str(w) = n

\* the names of a list as characters
CharsOf(names) == [i \in 1..Len(names) |-> Chars(names[i])]

\* the option strings
O_h     == <<"-", "h">>
O_help  == <<"-", "-", "h", "e", "l", "p">>
O_name  == <<"-", "-", "n", "a", "m", "e">>
O_count == <<"-", "-", "c", "o", "u", "n", "t">>
O_a     == <<"-", "a">>
O_all   == <<"-", "-", "a", "l", "l">>
O_p     == <<"-", "p">>
O_path  == <<"-", "-", "p", "a", "t", "h">>

----------------------------------------------------------------------------
(* The completion engine. *)

\* get_command_names: list(self.commands.keys()), in the order of insertion.
\* load_commands inserts info, then cd, then the leaves as they are listed
\* (a leaf named info or cd takes the place its key already has).
get_command_names(cmds) ==
    (IF "info" \in DOMAIN cmds THEN <<"info">> ELSE <<>>)
    \o (IF "cd" \in DOMAIN cmds THEN <<"cd">> ELSE <<>>)
    \o Listed(DOMAIN cmds \ {"info", "cd"})

\* the option strings of the parser a leaf's setup_parser builds, in the
\* order of its add_argument calls
LeafOptions(name) ==
    IF name = "hello" THEN <<O_name, O_count>> ELSE <<>>

\* get_command_options: the option strings of the actions of the parser;
\* argparse puts -h, --help first
get_command_options(cmds, command_name) ==
    IF command_name \notin DOMAIN cmds THEN <<>>
    ELSE IF cmds[command_name].kind = "builtin"
         THEN IF command_name = "info"
              THEN <<O_h, O_help, O_a, O_all, O_p, O_path>>
              ELSE <<O_h, O_help>>
         ELSE <<O_h, O_help>> \o LeafOptions(command_name)

\* [x for x in list if x.startswith(text)]
Matching(list, text) == SelectSeq(list, LAMBDA x : startswith(x, text))

\* get_partial_matches
get_partial_matches(cmds, path, text) ==
    IF text = <<>>
    THEN CharsOf(get_command_names(cmds)) \o CharsOf(get_available_dirs(path))
    ELSE sorted(Matching(CharsOf(get_command_names(cmds)), text)
                \o Matching(CharsOf(get_available_dirs(path)), text))

\* the current word of handle_tab
PartialOf(ln) == IF ln = <<>> \/ ln[Len(ln)] = " " THEN <<>>
                 ELSE Tokens(ln)[Len(Tokens(ln))]

\* completer: the list of which completer(text, state) returns element
\* `state` (None past its end); buffer is self.current_buffer
completer(cmds, path, buffer, text) ==
    LET tokens == Tokens(buffer)
    IN  IF tokens = <<>> \/ (Len(tokens) = 1 /\ buffer[Len(buffer)] # " ")
        THEN get_partial_matches(cmds, path, text)
        ELSE IF tokens[1] = W_cd /\ Len(tokens) <= 2
        THEN Matching(CharsOf(get_available_dirs(path)), text)
        ELSE IF Str(tokens[1]) \in DOMAIN cmds
        THEN Matching(get_command_options(cmds, Str(tokens[1])), text)
        ELSE <<>>

\* a handle_tab that closes the word with a blank whether or not anything
\* completed it
handle_tab_spaced(cmds, path, ln) ==
    [line |-> ln \o <<" ">>, completions |-> completer(cmds, path, ln, PartialOf(ln))]

\* handle_tab: the completions it collected and the line it returns
handle_tab(cmds, path, ln) ==
    LET tokens == Tokens(ln)
        current_word == PartialOf(ln)
        completions == completer(cmds, path, ln, current_word)
        common_prefix == commonprefix(completions)
        new == IF completions = <<>> THEN ln
               ELSE IF Len(completions) = 1
                    THEN IF tokens # <<>>
                         THEN JoinSp(Front(tokens) \o <<completions[1]>>) \o <<" ">>
                         ELSE completions[1] \o <<" ">>
               ELSE IF common_prefix # <<>>
                    THEN IF tokens # <<>>
                         THEN JoinSp(Front(tokens) \o <<common_prefix>>)
                         ELSE common_prefix
               ELSE ln
    IN  [line |-> new, completions |-> completions]

----------------------------------------------------------------------------
(* The line editor: the keys, the screen, the prompt. *)

\* more bytes getch can return
ESC == "^["     \* 0x1b
TAB == "^I"     \* 0x09
SOH == "^A"     \* 0x01
QM  == "?"

\* the keys that arrive as escape sequences
K_up    == <<ESC, "[", "A">>
K_down  == <<ESC, "[", "B">>
K_right == <<ESC, "[", "C">>
K_left  == <<ESC, "[", "D">>
K_home  == <<ESC, "[", "H">>
K_end   == <<ESC, "[", "F">>

\* the terminal's cursor column after a carriage return
CarriageReturn(c) == 0

\* ... after n printing characters (a line of the screen is taken to be
\* longer than anything written to it)
Text(c, n) == c + n

\* a backspace that does not move the cursor
BackStuck(c, n) == c

\* ... after n backspaces '\b'
Back(c, n) == IF n <= c THEN c - n ELSE 0

\* ... after '\n': the captured mode translates it to CR LF, raw mode moves
\* down only
NewLine(c, t) == IF t = old_settings THEN 0 ELSE c

\* ... after ESC [ C and after ESC [ D
CursorRight(c) == c + 1
CursorLeft(c) == Back(c, 1)

\* '/'.join(fields)
RECURSIVE JoinSlash(_)
JoinSlash(f) ==
    IF f = <<>> THEN ""
    ELSE IF Len(f) = 1 THEN f[1]
    ELSE f[1] \o "/" \o JoinSlash(Tail(f))

\* os.path.relpath(p, start)
relpath(p, start) ==
    LET path_list  == abspath(p)
        start_list == abspath(start)
        i == CHOOSE k \in 0..Len(start_list) :
                 /\ k <= Len(path_list)
                 /\ SubSeq(path_list, 1, k) = SubSeq(start_list, 1, k)
                 /\ \/ k = Len(start_list) \/ k = Len(path_list)
                    \/ path_list[k + 1] # start_list[k + 1]
        rel_list == [j \in 1..(Len(start_list) - i) |-> ".."]
                    \o SubSeq(path_list, i + 1, Len(path_list))
    IN  IF rel_list = <<>> THEN "." ELSE JoinSlash(rel_list)

\* get_prompt
get_prompt(path) ==
    LET rel_path == relpath(path, <<"cmd">>)
    IN  IF rel_path = "." THEN "cmd> " ELSE "cmd/" \o rel_path \o "> "

\* the used columns of the row after n printing characters written from
\* column c
Written(s, c, n) == IF c + n > s THEN c + n ELSE s

\* ... after m blanks written from column 0
Erased(s, m) == IF s <= m THEN 0 ELSE s

\* ... after refresh_line wrote '\r', m blanks, '\r' and n characters
Redrawn(s, m, n) == Written(Erased(s, m), 0, n)

\* a refresh_line that clears the width of the line it draws and keeps no
\* high-water mark
refresh_line_forgetful(p, ln, ps, c, ms) ==
    LET need == Len(p) + Len(ln) + 1
        m2   == IF need > 255 THEN 255 ELSE need
        c1   == Text(CarriageReturn(c), m2)
        c2   == Text(CarriageReturn(c1), Len(p) + Len(ln))
    IN  [max |-> m2,
         col |-> IF ps < Len(ln) THEN Back(c2, Len(ln) - ps) ELSE c2]

\* refresh_line: the new self.max_size_to_clear_in_a_line and the column the
\* cursor is left in
refresh_line(p, ln, ps, c, ms) ==
    LET need == Len(p) + Len(ln) + 1
        m1   == IF need > ms THEN need ELSE ms
        m2   == IF m1 > 255 THEN 255 ELSE m1
        c1   == Text(CarriageReturn(c), m2)
        c2   == Text(CarriageReturn(c1), Len(p) + Len(ln))
    IN  [max |-> m2,
         col |-> IF ps < Len(ln) THEN Back(c2, Len(ln) - ps) ELSE c2]

\* a history that forgets what it held
add_to_history_only(h, cmd) == IF Tokens(cmd) # <<>> THEN <<cmd>> ELSE h

\* add_to_history
add_to_history(h, cmd) == IF Tokens(cmd) # <<>> THEN Append(h, cmd) ELSE h

\* show_help_for_current_input: it prints; when exactly one command name
\* starts with the last token it dispatches the buffer with " -h" added
show_help_for_current_input(path, cmds, buffer, out) ==
    LET tokens == Tokens(buffer)
        current_token == tokens[Len(tokens)]
        matching_commands == Matching(CharsOf(get_command_names(cmds)), current_token)
    IN  IF tokens # <<>> /\ Len(matching_commands) = 1
        THEN execute_command(path, cmds, buffer \o <<" ">> \o O_h, out)
        ELSE [path |-> path, commands |-> cmds, status |-> "none"]

----------------------------------------------------------------------------
(* The line editor: what the user types. *)

\* longest history the model lets the session build
MaxHistory == 3

\* n backspaces
Wipe(n) == [i \in 1..n |-> DEL]

\* what the user types in one go at the line editor; every entry ends the
\* input request it starts
EditScripts ==
    { \* lines that are submitted
      W_hw \o <<CR>>,
      W_cpudir \o <<LF>>,
      W_exit \o <<CR>>,
      K_up \o <<"z", CR>>,
      K_up \o <<"x">> \o K_up \o Wipe(9) \o <<CR>>,
      \* completion
      <<"c", "p", TAB>> \o Wipe(3) \o <<CR>>,
      <<"h", "e", TAB, TAB>> \o Wipe(2) \o <<CR>>,
      W_hello \o <<" ", "-", "-", "n", TAB>> \o Wipe(14) \o <<CR>>,
      W_cd \o <<" ", TAB>> \o Wipe(7) \o <<CR>>,
      W_cd \o <<" ">> \o W_cpudir \o <<" ", K_left[1], K_left[2], K_left[3], TAB>>
           \o K_end \o Wipe(10) \o <<CR>>,
      <<TAB, CR>>,
      \* history browsing
      K_up \o K_up \o K_up \o K_up \o K_down \o <<DEL>> \o K_down \o K_down
           \o K_down \o K_down \o <<CR>>,
      K_down \o <<CR>>,
      \* moving and editing
      <<"u", "s">> \o K_left \o <<"c">> \o K_left \o K_left \o K_left
           \o K_right \o K_right \o K_right \o K_right \o K_home
           \o <<"p", QM, TAB, DEL, DEL>> \o K_end \o Wipe(4) \o <<CR>>,
      <<" ", TAB, CR>>,
      \* help
      <<QM, CR>>,
      W_cd \o <<QM>> \o Wipe(2) \o <<CR>>,
      <<"h", "e", QM>> \o Wipe(2) \o <<CR>>,
      W_up \o <<" ", "i", QM>> \o Wipe(4) \o <<CR>>,
      \* bytes that are dropped
      <<"z", ESC, "x", SOH, ESC, "[", "Z", EOT, DEL, CR>>,
      \* the ends of the session
      <<EOT>>,
      <<ETX, ETX>>,
      <<"z", ETX, "z">> }

----------------------------------------------------------------------------
(* The line editor: run()'s loop with get_input_with_immediate_help.       *)
(* getch is taken whole here: it returns the next byte with the terminal    *)
(* restored.                                                                *)

EditInit ==
    /\ pc = "e_prompt"
    /\ batch_command = NoCommand
    /\ is_batch_mode = FALSE
    /\ current_path = <<"cmd">>
    /\ commands = load_commands(add_builtin_commands, <<"cmd">>)
    /\ going_quit = FALSE
    /\ term = old_settings
    /\ line = <<>>
    /\ pos = 0
    /\ command = <<>>
    /\ stdin = <<>>
    /\ parts = <<>>
    /\ current = 0
    /\ success = FALSE
    /\ exit_code = -1
    /\ keys = <<>>
    /\ restores = 0
    /\ exit_reason = "none"
    /\ last_op = NoOp
    /\ batch_log = <<>>
    /\ cycles = 0
    /\ history = <<>>
    /\ history_index = 0
    /\ prompt = ""
    /\ max_size_to_clear_in_a_line = 1
    /\ col = 0
    /\ ev = NoKey
    /\ shown = 0
    /\ tty_error = "none"

\* the variables the line editor leaves alone
rest_vars == <<batch_command, is_batch_mode, term, parts, current, success,
               exit_code, keys, restores, batch_log, cycles, tty_error>>

\* run(): prompt = self.get_prompt(), and get_input_with_immediate_help up
\* to its loop
EditPrompt ==
    /\ pc = "e_prompt"
    /\ prompt' = get_prompt(current_path)
    /\ line' = <<>>
    /\ pos' = 0
    /\ col' = Text(col, Len(get_prompt(current_path)))
    /\ shown' = Written(shown, col, Len(get_prompt(current_path)))
    /\ history_index' = Len(history)
    /\ ev' = NoKey
    /\ last_op' = NoOp
    /\ pc' = "e_read"
    /\ UNCHANGED <<current_path, commands, going_quit, command, stdin,
                   exit_reason, history, max_size_to_clear_in_a_line>>
    /\ UNCHANGED rest_vars

\* the user types while the shell waits for a byte
EditType ==
    /\ pc \in {"e_read", "e_armed"}
    /\ stdin = <<>>
    /\ \E s \in EditScripts : stdin' = s
    /\ UNCHANGED <<pc, current_path, commands, going_quit, line, pos, command,
                   exit_reason, last_op>>
    /\ UNCHANGED edit_vars
    /\ UNCHANGED rest_vars

\* the guard of the Right key
right_always(ln, ps) == TRUE
right_ok(ln, ps) == ps < Len(ln)

\* the newest entry, whatever the index
history_newest(h, i) == h[Len(h)]

\* the entry before the one asked for
history_before(h, i) == h[IF i >= 1 THEN i ELSE 1]

\* self.history[i], Python's index i
history_at(h, i) == h[i + 1]

\* the state of the editor after a key: line, pos, the column, the clearing
\* width, the history index
Ed(ln, ps, c, ms, hi) ==
    [line |-> ln, pos |-> ps, col |-> c, max |-> ms, history_index |-> hi,
     drawn |-> FALSE]

\* the same, after refresh_line()
Refreshed(p, ln, ps, c, ms, hi) ==
    LET r == refresh_line(p, ln, ps, c, ms)
    IN  [Ed(ln, ps, r.col, r.max, hi) EXCEPT !.drawn = TRUE]

\* the branch of an escape sequence ESC [ next2
EscapeKey(next2, p, h, ln, ps, c, ms, hi) ==
    IF next2 = "A"
    THEN IF hi > 0
         THEN Refreshed(p, history_at(h, hi - 1), Len(history_at(h, hi - 1)), c, ms, hi - 1)
         ELSE Ed(ln, ps, c, ms, hi)
    ELSE IF next2 = "B"
    THEN IF hi < Len(h)
         THEN LET l2 == IF hi + 1 < Len(h) THEN history_at(h, hi + 1) ELSE <<>>
              IN  Refreshed(p, l2, Len(l2), c, ms, hi + 1)
         ELSE Ed(ln, ps, c, ms, hi)
    ELSE IF next2 = "C"
    THEN IF right_ok(ln, ps)
         THEN Ed(ln, ps + 1, CursorRight(c), ms, hi)
         ELSE Ed(ln, ps, c, ms, hi)
    ELSE IF next2 = "D"
    THEN IF ps > 0
         THEN Ed(ln, ps - 1, CursorLeft(c), ms, hi)
         ELSE Ed(ln, ps, c, ms, hi)
    ELSE IF next2 = "H"
    THEN Ed(ln, 0, Text(CarriageReturn(c), Len(p)), ms, hi)
    ELSE IF next2 = "F"
    THEN Refreshed(p, ln, Len(ln), c, ms, hi)
    ELSE Ed(ln, ps, c, ms, hi)

\* an interrupt key that is never recognised
IsInterruptKeyNever(c) == FALSE

\* the test for Ctrl-C in get_input_with_immediate_help
IsInterruptKey(c) == c = ETX

\* a Ctrl-D that ends the input whatever the line holds
EofAlways(ln) == TRUE

\* Ctrl-D returns None when the line is empty, and is dropped otherwise
EofReturns(ln) == ln = <<>>

\* a help key that is never recognised
IsHelpKeyNever(c) == FALSE

\* the test for the help key in get_input_with_immediate_help
IsHelpKey(c) == c = QM

\* the name of a key, for the record of the last key
KeyName(s) ==
    LET c == Head(s)
    IN  IF c = ESC
        THEN IF s[2] # "[" THEN "ignored"
             ELSE CASE s[3] = "A" -> "up"    [] s[3] = "B" -> "down"
                    [] s[3] = "C" -> "right" [] s[3] = "D" -> "left"
                    [] s[3] = "H" -> "home"  [] s[3] = "F" -> "end"
                    [] OTHER -> "ignored"
        ELSE CASE IsInterruptKey(c) -> "intr"
               [] c = EOT -> "eof"
               [] c = DEL -> "backspace"
               [] IsHelpKey(c) -> "help"
               [] c = TAB -> "tab"
               [] c \in {CR, LF} -> "enter"
               [] OTHER -> IF Printable(c) THEN "insert" ELSE "ignored"

\* a key that is always one byte
KeyLenOne(s) == 1

\* the number of bytes getch returns for a key: an escape sequence is read
\* to its end
KeyLen(s) == IF Head(s) = ESC
             THEN IF Len(s) >= 2 /\ s[2] = "[" THEN 3 ELSE 2
             ELSE 1

\* one turn of the loop of get_input_with_immediate_help
EditKey ==
    /\ pc = "e_read"
    /\ stdin # <<>>
    /\ Len(stdin) >= KeyLen(stdin)
    /\ LET c   == Head(stdin)
           key == KeyName(stdin)
           tab == handle_tab(commands, current_path, line)
           same == Ed(line, pos, col, max_size_to_clear_in_a_line, history_index)
           rec(h) == [key |-> key, c |-> c, line |-> line, pos |-> pos,
                      history |-> history, history_index |-> history_index,
                      completions |-> IF key = "tab" THEN tab.completions ELSE <<>>,
                      ups |-> IF key = "up" /\ ev.ups >= 0 THEN ev.ups + 1 ELSE -1,
                      path |-> current_path, commands |-> commands, help |-> h,
                      widest |-> IF Len(prompt) + Len(line) > ev.widest
                                 THEN Len(prompt) + Len(line) ELSE ev.widest]
       IN  /\ stdin' = SubSeq(stdin, KeyLen(stdin) + 1, Len(stdin))
           /\ IF key # "help" THEN ev' = rec("none") ELSE TRUE
           /\ IF key = "intr"
              THEN /\ line' = <<>>
                   /\ pc' = "e_intr"
                   /\ UNCHANGED <<pos, col, max_size_to_clear_in_a_line, history_index,
                                  history, command, current_path, commands, shown>>
              ELSE IF key = "eof" /\ EofReturns(line)
              THEN /\ col' = NewLine(col, term)
                   /\ shown' = 0
                   /\ command' = NoLine
                   /\ pc' = "e_eval"
                   /\ UNCHANGED <<line, pos, max_size_to_clear_in_a_line, history_index,
                                  history, current_path, commands>>
              ELSE IF key = "enter"
              THEN /\ Len(history) < MaxHistory \/ Tokens(line) = <<>>
                   /\ col' = NewLine(col, term)
                   /\ shown' = 0
                   /\ command' = line
                   /\ history' = add_to_history(history, line)
                   /\ pc' = "e_eval"
                   /\ UNCHANGED <<line, pos, max_size_to_clear_in_a_line, history_index,
                                  current_path, commands>>
              ELSE IF key = "help"
              THEN /\ \E out \in Outcomes :
                        LET r == show_help_for_current_input(current_path, commands,
                                                             line, out)
                        IN  /\ current_path' = r.path
                            /\ commands' = r.commands
                            /\ ev' = rec(r.status)
                   /\ col' = LET c1 == Text(NewLine(col, term), Len(prompt) + Len(line))
                             IN  IF pos < Len(line) THEN Back(c1, Len(line) - pos) ELSE c1
                   /\ shown' = Written(0, NewLine(col, term), Len(prompt) + Len(line))
                   /\ pc' = "e_read"
                   /\ UNCHANGED <<line, pos, max_size_to_clear_in_a_line, history_index,
                                  history, command>>
              ELSE LET r == CASE key = "backspace" ->
                                   IF pos > 0
                                   THEN Refreshed(prompt, Pop(line, pos), pos - 1, col,
                                                  max_size_to_clear_in_a_line, history_index)
                                   ELSE same
                              [] key = "insert" ->
                                   Refreshed(prompt, Insert(line, pos, c), pos + 1, col,
                                             max_size_to_clear_in_a_line, history_index)
                              [] key = "tab" ->
                                   IF tab.line # line
                                   THEN Refreshed(prompt, tab.line, Len(tab.line), col,
                                                  max_size_to_clear_in_a_line, history_index)
                                   ELSE Refreshed(prompt, line, pos, col,
                                                  max_size_to_clear_in_a_line, history_index)
                              [] key \in {"up", "down", "right", "left", "home", "end"} ->
                                   EscapeKey(stdin[3], prompt, history, line, pos, col,
                                             max_size_to_clear_in_a_line, history_index)
                              [] OTHER -> same
                   IN  /\ line' = r.line
                       /\ pos' = r.pos
                       /\ col' = r.col
                       /\ shown' = LET s0 == IF key = "tab" /\ Len(tab.completions) > 1
                                              THEN 0 ELSE shown
                                    IN  IF r.drawn
                                        THEN Redrawn(s0, r.max, Len(prompt) + Len(r.line))
                                        ELSE IF key = "home"
                                        THEN Written(s0, 0, Len(prompt))
                                        ELSE s0
                       /\ max_size_to_clear_in_a_line' = r.max
                       /\ history_index' = r.history_index
                       /\ pc' = "e_read"
                       /\ UNCHANGED <<history, command, current_path, commands>>
    /\ term' = tcsetattr(setraw(term))
    /\ UNCHANGED <<going_quit, exit_reason, last_op, prompt>>
    /\ UNCHANGED <<batch_command, is_batch_mode, parts, current, success,
                   exit_code, keys, restores, batch_log, cycles, tty_error>>

\* run(): what the loop body does with the returned line
EditEval ==
    /\ pc = "e_eval"
    /\ IF command = NoLine \/ IsExit(command)
       THEN /\ pc' = "e_done"
            /\ exit_reason' = IF command = NoLine THEN "eof" ELSE "exit"
            /\ UNCHANGED <<current_path, commands, last_op>>
       ELSE IF Tokens(command) = <<>>
       THEN /\ pc' = "e_prompt"
            /\ UNCHANGED <<current_path, commands, last_op, exit_reason>>
       ELSE /\ \E out \in Outcomes :
                 LET r == execute_command(current_path, commands, command, out)
                 IN  /\ current_path' = r.path
                     /\ commands' = r.commands
                     /\ last_op' = [tokens |-> Tokens(command), from |-> current_path,
                                    commands |-> commands, status |-> r.status]
            /\ pc' = "e_prompt"
            /\ UNCHANGED exit_reason
    /\ command' = <<>>
    /\ UNCHANGED <<going_quit, line, pos, stdin>>
    /\ UNCHANGED edit_vars
    /\ UNCHANGED rest_vars

\* run(): the KeyboardInterrupt handler up to its getch
EditInterrupt ==
    /\ pc = "e_intr"
    /\ col' = NewLine(NewLine(col, term), term)
    /\ shown' = 0
    /\ IF InterruptBreaks(going_quit)
       THEN /\ pc' = "e_done"
            /\ exit_reason' = "interrupt"
            /\ UNCHANGED going_quit
       ELSE /\ going_quit' = TRUE
            /\ pc' = "e_armed"
            /\ UNCHANGED exit_reason
    /\ UNCHANGED <<current_path, commands, line, pos, command, stdin, last_op,
                   history, history_index, prompt, max_size_to_clear_in_a_line, ev>>
    /\ UNCHANGED rest_vars

\* a handler that goes on without reading a byte
EditArmedKeeps ==
    /\ pc = "e_armed"
    /\ stdin # <<>>
    /\ term' = tcsetattr(setraw(term))
    /\ pc' = "e_prompt"
    /\ UNCHANGED <<current_path, commands, going_quit, line, pos, command,
                   exit_reason, last_op, stdin>>
    /\ UNCHANGED edit_vars
    /\ UNCHANGED <<batch_command, is_batch_mode, parts, current, success,
                   exit_code, keys, restores, batch_log, cycles, tty_error>>

\* run(): the getch of the handler returns a byte, which is dropped
EditArmed ==
    /\ pc = "e_armed"
    /\ stdin # <<>>
    /\ stdin' = Tail(stdin)
    /\ term' = tcsetattr(setraw(term))
    /\ pc' = "e_prompt"
    /\ UNCHANGED <<current_path, commands, going_quit, line, pos, command,
                   exit_reason, last_op>>
    /\ UNCHANGED edit_vars
    /\ UNCHANGED <<batch_command, is_batch_mode, parts, current, success,
                   exit_code, keys, restores, batch_log, cycles, tty_error>>

EditNext ==
    \/ EditPrompt
    \/ EditType
    \/ EditKey
    \/ EditEval
    \/ EditInterrupt
    \/ EditArmed

SpecEdit == EditInit /\ [][EditNext]_vars

----------------------------------------------------------------------------
(* Properties. *)

\* a directory is the root command directory or below it
UnderRoot(d) == Len(d) >= Len(RootDir) /\ SubSeq(d, 1, Len(RootDir)) = RootDir

\* the session has left the read-eval loop
LoopLeft == pc \in {"finally", "tail", "done"}

\* C1: in interactive mode, once the last two bytes read are both Ctrl-C
\* (nothing between them), the read-eval loop has been left and no further
\* prompt is shown.
C1_TwoInterruptsTerminate ==
    (~is_batch_mode /\ keys = <<ETX, ETX>>) => LoopLeft

\* C2: a Ctrl-C that follows a key other than Ctrl-C never ends the session,
\* whatever was armed before: the session ends by interrupt only when the
\* byte before the ending Ctrl-C was a Ctrl-C too.
C2_OtherKeyDisarms ==
    exit_reason = "interrupt" => keys = <<ETX, ETX>>

\* C3: whenever the process has ended, by whichever path (exit keyword,
\* Ctrl-D, interrupt, an error leaving the loop, end of a batch run), the
\* terminal is in the mode captured at construction, never raw.
C3_TerminalRestoredAtExit ==
    pc = "done" => term = old_settings

\* C3: a session that was in raw mode for its reads has ended by interrupt
C3_Witness ==
    pc = "done" /\ exit_reason = "interrupt" /\ term = old_settings /\ restores > 0

\* the ways a session ends, each met with the terminal restored
C3_WitnessEof   == pc = "done" /\ exit_reason = "eof"
C3_WitnessExit  == pc = "done" /\ exit_reason = "exit"
C3_WitnessError == pc = "done" /\ exit_reason = "error"
C3_WitnessBatch == pc = "done" /\ exit_reason = "batch"

\* C4: when interrupts ended the session, the restore of the captured mode
\* was executed exactly once from the read of the ending Ctrl-C to the end
\* of the process.
C4_RestoreExactlyOnce ==
    (pc = "done" /\ exit_reason = "interrupt") => restores = 1

\* C5: the current location is always the root command directory or a
\* descendant of it.
C5_NeverAboveRoot ==
    UnderRoot(Resolve(current_path))

\* C6: after a dispatched `..` or `cd ..` at the root the location is what
\* it was, and after a dispatched `..` in a location below the root the
\* location is the parent directory of the one before.
C6_ParentNavigation ==
    LET from == Resolve(last_op.from)
        up   == last_op.tokens # <<>> /\ last_op.tokens[1] = W_up
        cdup == last_op.tokens = <<W_cd, W_up>>
    IN  /\ ((up \/ cdup) /\ from = RootDir) => current_path = last_op.from
        /\ (up /\ UnderRoot(from) /\ from # RootDir)
              => Resolve(current_path) = Front(from)

\* C7: every addressable entry is a built-in or was loaded from a leaf file
\* of the current location; no entry loaded in another location remains.
C7_NoStaleEntries ==
    \A n \in DOMAIN commands :
        \/ commands[n].kind = "builtin"
        \/ /\ commands[n].origin = Resolve(current_path)
           /\ n \in LeafFiles(Resolve(current_path))

\* C8: a batch run exits 0 only when its final command succeeded: not when
\* it was unknown, broke the leaf's option schema or its execute raised.
C8_ExitStatusReflectsFinalStep ==
    (pc = "done" /\ is_batch_mode /\ exit_code = 0)
        => last_op.status \notin {"unknown", "usage", "raise", "error", "navfail"}

\* C9: batch mode takes the tokens left to right. Step i of the run is about
\* token i; it is a navigation exactly when that token is a directory of the
\* location reached so far; the first token that is not a directory is
\* dispatched together with all tokens after it, as one command, once; and
\* nothing follows the dispatch: it is the last step and ends the loop.
C9_BatchLeftToRight ==
    is_batch_mode =>
        /\ Len(batch_log) <= Len(parts)
        /\ \A i \in 1..Len(batch_log) :
             LET e == batch_log[i]
             IN  /\ e.from = IF i = 1 THEN <<"cmd">>
                             ELSE execute_cd(batch_log[i-1].from, commands,
                                             PathOf(parts[i-1])).path
                 /\ e.op = "nav" =>
                      /\ isdir(join(e.from, PathOf(parts[i])))
                      /\ e.tokens = <<parts[i]>>
                      /\ current >= i
                 /\ e.op = "dispatch" =>
                      /\ ~isdir(join(e.from, PathOf(parts[i])))
                      /\ e.tokens = SubSeq(parts, i, Len(parts))
                      /\ i = Len(batch_log)
                      /\ pc \in {"batch_exit", "done"}
        /\ pc \in {"batch_exit", "done"} =>
             \/ parts = <<>> /\ batch_log = <<>>
             \/ /\ batch_log # <<>>
                /\ \/ batch_log[Len(batch_log)].op = "dispatch"
                   \/ Len(batch_log) = Len(parts)

\* C9: a batch run went down two directories and then dispatched the two
\* tokens left as one command
C9_Witness ==
    /\ pc = "done" /\ is_batch_mode
    /\ Len(batch_log) = 3
    /\ batch_log[1].op = "nav" /\ batch_log[2].op = "nav"
    /\ batch_log[3].op = "dispatch" /\ Len(batch_log[3].tokens) = 2

\* C10: with the -c flag given, whatever its value, the process never is in
\* the interactive loop, and it ends having run one batch cycle.
C10_FlagMeansBatch ==
    batch_command.given =>
        /\ pc \notin LoopPcs
        /\ ~LoopLeft \/ is_batch_mode
        /\ pc = "done" => cycles = 1

----------------------------------------------------------------------------
(* Properties of the line editor (SpecEdit). *)

\* the line editor is inside an input request, waiting for the next key
InRequest == pc = "e_read"

\* C11: inside an input request, whatever keys were handled (printable
\* characters, backspace, arrows, Home, End, Tab, `?`, history browsing), the
\* cursor is at least 0 and at most the length of the line buffer.
C11_CursorWithinBuffer ==
    InRequest => (0 <= pos /\ pos <= Len(line))

\* C11: the Right key was pressed with the cursor at the end of a line that
\* is not empty, and the cursor stayed there
C11_Witness ==
    /\ InRequest /\ ev.key = "right"
    /\ ev.pos = Len(ev.line) /\ Len(line) > 0 /\ pos = Len(line)

\* the keys that redraw the line or move the cursor on the screen
DrawKeys == {"insert", "backspace", "left", "right", "home", "end", "up", "down",
             "tab", "help"}

\* C12: after a key that redraws the line or moves the cursor (insert,
\* backspace, Left, Right, Home, End, Up, Down, Tab, the reprint after `?`),
\* the column of the terminal's cursor is the length of the prompt plus the
\* cursor of the line buffer.
C12_ScreenCursorFollows ==
    (InRequest /\ ev.key \in DrawKeys) => col = Len(prompt) + pos

\* C12: the line was printed again after `?` with the cursor inside it, and
\* the screen cursor was brought back to it
C12_Witness ==
    /\ InRequest /\ ev.key = "help"
    /\ 0 < pos /\ pos < Len(line)
    /\ col = Len(prompt) + pos

\* the partial token of a buffer: the text after its last blank, empty when
\* the buffer ends in a blank (or is empty)
RECURSIVE PartialToken(_)
PartialToken(ln) ==
    IF ln = <<>> \/ ln[Len(ln)] = " " THEN <<>>
    ELSE PartialToken(Front(ln)) \o <<ln[Len(ln)]>>

\* the buffer up to its partial token
BeforePartial(ln) == SubSeq(ln, 1, Len(ln) - Len(PartialToken(ln)))

\* C13: after a Tab that had exactly one candidate, the buffer is the buffer
\* before it with the partial token replaced by the candidate and one space,
\* all that came before the partial token being kept, and the cursor is at
\* the end of the buffer.
C13_SingleCandidateCompletes ==
    (InRequest /\ ev.key = "tab" /\ Len(ev.completions) = 1) =>
        /\ line = BeforePartial(ev.line) \o ev.completions[1] \o <<" ">>
        /\ pos = Len(line)

\* the longest string every candidate starts with
LongestCommonPrefix(cs) ==
    LET pre(k) == SubSeq(cs[1], 1, k)
        common(k) == \A i \in 1..Len(cs) : startswith(cs[i], pre(k))
    IN  pre(CHOOSE k \in 0..Len(cs[1]) :
                /\ common(k)
                /\ \A j \in (k + 1)..Len(cs[1]) : ~common(j))

\* C14: after a Tab that had several candidates, the partial token of the
\* buffer is replaced by the longest common prefix of the candidates when
\* there is one (the buffer is as it was when there is none), all that came
\* before the partial token is kept, and the line has not been submitted:
\* the editor still waits for a key and the history is what it was.
C14_SeveralCandidatesAdvance ==
    (ev.key = "tab" /\ Len(ev.completions) >= 2) =>
        /\ InRequest
        /\ history = ev.history
        /\ line = IF LongestCommonPrefix(ev.completions) # <<>>
                  THEN BeforePartial(ev.line) \o LongestCommonPrefix(ev.completions)
                  ELSE ev.line

\* C15: after a Tab for which the completion engine had no candidate, the
\* line buffer and the cursor are exactly what they were before it.
C15_NoCandidateNoChange ==
    (ev.key = "tab" /\ ev.completions = <<>>) =>
        /\ InRequest
        /\ line = ev.line
        /\ pos = ev.pos

\* C15: Tab was pressed with no candidate and the cursor inside a line
C15_Witness ==
    /\ InRequest /\ ev.key = "tab" /\ ev.completions = <<>>
    /\ line = ev.line /\ Len(line) > 1
    /\ pos = ev.pos /\ 0 < pos /\ pos < Len(line)

\* the list is in ascending order
IsSorted(cs) == \A i, j \in 1..Len(cs) : i < j => ~Less(cs[j], cs[i])

\* C16: the candidates computed for a Tab press are in sorted order, for
\* every buffer and every snapshot: for a prefix of the first token, for an
\* empty partial token, after `cd`, and for the options of a leaf.
C16_CandidatesSorted ==
    ev.key = "tab" => IsSorted(ev.completions)

\* no string is twice in the list
NoDuplicates(cs) == \A i, j \in 1..Len(cs) : cs[i] = cs[j] => i = j

\* C17: the candidates computed for a Tab press never hold the same string
\* twice, also when a leaf and a child directory of the namespace have the
\* same name; a name that is the only distinct match completes as a single
\* match does: the candidate and one space.
C17_CandidatesDistinct ==
    ev.key = "tab" =>
        /\ NoDuplicates(ev.completions)
        /\ (ev.completions # <<>> /\ PartialToken(ev.line) # <<>>
            /\ \A i \in 1..Len(ev.completions) : ev.completions[i] = ev.completions[1])
              => line = BeforePartial(ev.line) \o ev.completions[1] \o <<" ">>

\* the namespace of C18: its leaves are cpu and usb, its one sub-namespace
\* is cpudir
CpuNamespace ==
    /\ LeafFiles(Resolve(current_path)) = {"cpu", "usb"}
    /\ SubDirs(Resolve(current_path)) = {"cpudir"}

\* C18 as stated: in that namespace a Tab on the buffer `cp` has the
\* candidates cpu, cpudir in that order and leaves the buffer `cp`, not
\* submitted.
C18_Original ==
    (CpuNamespace /\ ev.key = "tab" /\ ev.line = <<"c", "p">>) =>
        /\ ev.completions = <<W_cpu, W_cpudir>>
        /\ InRequest /\ history = ev.history
        /\ line = <<"c", "p">>

\* C18, amended: in that namespace a Tab on the buffer `cp` has the
\* candidates cpu, cpudir in that order and leaves the buffer `cpu`, their
\* longest common prefix, with the cursor at its end and the line not
\* submitted.
C18_CompletesToCommonPrefix ==
    (CpuNamespace /\ ev.key = "tab" /\ ev.line = <<"c", "p">>) =>
        /\ ev.completions = <<W_cpu, W_cpudir>>
        /\ InRequest /\ history = ev.history
        /\ line = W_cpu
        /\ pos = Len(W_cpu)

\* C18: Tab was pressed on `cp` in that namespace
C18_Witness ==
    /\ CpuNamespace /\ InRequest /\ ev.key = "tab" /\ ev.line = <<"c", "p">>
    /\ ev.completions = <<W_cpu, W_cpudir>> /\ line = W_cpu

\* C19: history browsing goes through the submitted lines newest first.
\* With n lines in the history, after k Up keys from a fresh prompt the
\* buffer holds line n-k+1 (the oldest line once k exceeds n) with the
\* cursor at its end; an Up at the oldest entry changes nothing; a Down
\* moves one entry forward, and empties the buffer when it leaves the newest
\* entry.
C19_HistoryNewestFirst ==
    LET n == Len(history)
    IN  /\ (InRequest /\ ev.ups >= 1 /\ n >= 1) =>
              /\ line = history[IF ev.ups <= n THEN n - ev.ups + 1 ELSE 1]
              /\ pos = Len(line)
        /\ (InRequest /\ ev.key = "up" /\ ev.history_index = 0) =>
              /\ line = ev.line /\ pos = ev.pos /\ history_index = 0
        /\ (InRequest /\ ev.key = "down" /\ ev.history_index < n) =>
              /\ history_index = ev.history_index + 1
              /\ line = IF history_index < n THEN history[history_index + 1] ELSE <<>>
              /\ pos = Len(line)

\* C19: with three different lines a, b, c submitted, Up was pressed until
\* the buffer showed a, and a Down then brought b
C19_Witness ==
    /\ InRequest /\ Len(history) = 3
    /\ history[1] # history[2] /\ history[2] # history[3] /\ history[1] # history[3]
    /\ ev.key = "down" /\ ev.history_index = 0 /\ ev.line = history[1]
    /\ line = history[2] /\ pos = Len(line)

\* the step in which Enter is handled with the buffer as it is
EnterStep ==
    /\ pc = "e_read" /\ stdin # <<>> /\ Head(stdin) \in {CR, LF}
    /\ pc' = "e_eval"

\* C20: the history is append-only. A step changes it only when it is Enter
\* on a buffer that is not empty or blank, and that step appends exactly the
\* submitted line at the end; every other step (editing a loaded line, Tab,
\* `?`, Ctrl-C, Ctrl-D, dispatch, the next prompt) leaves it as it is.
C20_HistoryAppendOnly ==
    [][ /\ (history' # history) => (EnterStep /\ Tokens(line) # <<>>)
        /\ (EnterStep /\ Tokens(line) # <<>>) => history' = Append(history, line)
      ]_vars

\* C20: a line loaded by Up was edited and submitted; it was appended, the
\* entries before it are as they were, and the dispatch that followed left
\* the history alone
C20_Witness ==
    /\ pc = "e_prompt" /\ ev.key = "enter" /\ last_op.status # "none"
    /\ ev.history # <<>>
    /\ ev.line = ev.history[Len(ev.history)] \o <<"z">>
    /\ history = Append(ev.history, ev.line)


----------------------------------------------------------------------------
(* Immediate help and dispatch. *)

\* C21: the help key never changes the location nor the command table,
\* whatever the buffer holds
C21_HelpLeavesLocation ==
    ev.c = QM => current_path = ev.path /\ commands = ev.commands


\* C22: the help key inserts nothing: after it the line buffer and the
\* cursor are what they were, the history is unchanged, and the editor is
\* still reading keys
C22_HelpLeavesLine ==
    ev.c = QM =>
        InRequest /\ line = ev.line /\ pos = ev.pos /\ history = ev.history

C22_Witness ==
    ev.c = QM /\ ev.line # <<>> /\ 0 < ev.pos /\ ev.history # <<>> /\ line = ev.line


\* the buffer before the last key was one partial token, a proper prefix of
\* the name of exactly one command, which is a leaf
ProperPrefixOfOneLeaf ==
    /\ Len(Tokens(ev.line)) = 1
    /\ \E n \in DOMAIN ev.commands :
          /\ ev.commands[n].kind = "leaf"
          /\ startswith(Chars(n), Tokens(ev.line)[1])
          /\ Chars(n) # Tokens(ev.line)[1]
          /\ \A m \in DOMAIN ev.commands :
                startswith(Chars(m), Tokens(ev.line)[1]) => m = n

\* C23: with one partial token that is a proper prefix of exactly one leaf
\* command, the help key renders that leaf's option help, as invoking the
\* leaf with its help flag does
C23_HelpOfPartialLeaf ==
    (ev.c = QM /\ ProperPrefixOfOneLeaf) => ev.help = "help"


\* the last dispatch was made by the interactive loop
Dispatched == ~is_batch_mode /\ last_op.status # "none"

\* the first token of the last dispatched line, as a string
FirstToken == Str(last_op.tokens[1])

\* the first token of the last dispatched line is `..` or names a child
\* directory of the location the line was dispatched at
NavigationLine ==
    FirstToken = ".." \/ FirstToken \in SubDirs(Resolve(last_op.from))

\* C24: interactive dispatch of a line whose first token is `..` or a
\* sub-namespace name is exactly one navigation to that target, also when a
\* leaf of that name exists; the other tokens are dropped and no leaf runs
C24_NavigationOnly ==
    (Dispatched /\ NavigationLine) =>
        LET r == execute_cd(last_op.from, last_op.commands,
                            IF FirstToken = ".." THEN <<"..">> ELSE <<FirstToken>>)
        IN  /\ last_op.status = "nav"
            /\ current_path = r.path
            /\ commands = r.commands

\* C24: `usb run` was dispatched where usb is both a leaf and a child
\* directory, and the session entered the directory
C24_Witness ==
    /\ Dispatched
    /\ last_op.tokens = <<W_usb, W_run>>
    /\ "usb" \in DOMAIN last_op.commands
    /\ last_op.commands["usb"].kind = "leaf"
    /\ current_path = last_op.from \o <<"usb">>


\* the last dispatched line failed: its first token is no command, its
\* arguments do not fit the leaf's parser, or the leaf's execute raised
DispatchFailed == Dispatched /\ last_op.status \in {"unknown", "usage", "raise"}

\* C25: after the dispatch of a line with an unknown first token, with
\* arguments the leaf's parser rejects, or whose leaf raises, the session is
\* still in its read loop, about to show a prompt, with the location and the
\* snapshot it had before
C25_FailedDispatchKeepsSession ==
    DispatchFailed =>
        /\ pc = "prompt"
        /\ exit_reason = "none"
        /\ current_path = last_op.from
        /\ commands = last_op.commands

\* C25: a leaf raised in a sub-namespace and the loop is about to prompt
C25_Witness ==
    /\ DispatchFailed /\ last_op.status = "raise"
    /\ last_op.from # <<"cmd">>
    /\ pc = "prompt"


\* the last dispatched line is `cd <name>` and the location it was
\* dispatched at has no directory <name>
CdToMissing ==
    /\ Dispatched
    /\ Len(last_op.tokens) = 2
    /\ last_op.tokens[1] = W_cd
    /\ last_op.tokens[2] # W_up
    /\ Head(last_op.tokens[2]) # "-"
    /\ ~isdir(join(last_op.from, PathOf(last_op.tokens[2])))

\* C26: `cd <name>` where the current directory has no child directory of
\* that name is reported and leaves the location and the snapshot as they
\* were
C26_CdMissingKeepsLocation ==
    CdToMissing =>
        /\ last_op.status \in {"navfail", "unknown"}
        /\ current_path = last_op.from
        /\ commands = last_op.commands

\* C26: `cd zz` was answered with Directory not found in a sub-namespace
C26_Witness ==
    /\ CdToMissing /\ last_op.status = "navfail"
    /\ last_op.tokens[2] = W_zz
    /\ last_op.from # <<"cmd">>


\* C27: once getch failed to acquire or to release raw mode, the session has
\* ended or is ending; the read loop does not go on
C27_TtyFailureIsFatal ==
    tty_error # "none" => LoopLeft


----------------------------------------------------------------------------
(* Ctrl-D, Ctrl-C and the editing of the line. *)

\* C28: Ctrl-D on an empty line ends the input request with a result that
\* is neither an interrupt nor a line, and the loop stops without a
\* dispatch; on a line that is not empty it changes neither the buffer, the
\* cursor nor the history, and the editing goes on
C28_EofOnlyOnEmptyLine ==
    ev.c = EOT =>
        IF ev.line = <<>>
        THEN /\ pc \in {"e_eval", "e_done"}
             /\ pc = "e_eval" => command = NoLine
             /\ pc = "e_done" => exit_reason = "eof"
             /\ last_op = NoOp
             /\ current_path = ev.path /\ commands = ev.commands
             /\ history = ev.history
        ELSE /\ InRequest
             /\ line = ev.line /\ pos = ev.pos /\ history = ev.history

\* C28: the session has ended by Ctrl-D on an empty line, after lines were
\* submitted
C28_Witness ==
    ev.c = EOT /\ ev.line = <<>> /\ pc = "e_done" /\ history # <<>>

\* Ctrl-D was dropped on a line that is not empty
C28_WitnessEditing ==
    ev.c = EOT /\ ev.line # <<>> /\ InRequest /\ line = ev.line


\* C29: Ctrl-C while editing aborts the line: the buffer is not returned for
\* dispatch and not added to the history, the session driver gets an
\* interrupt and no line value, and every input request starts with an
\* empty buffer and the cursor at 0
C29_InterruptAbortsLine ==
    /\ ev.c = ETX =>
          /\ pc \in {"e_intr", "e_armed", "e_prompt", "e_done"}
          /\ pc = "e_done" => exit_reason = "interrupt"
          /\ command = <<>>
          /\ last_op = NoOp
          /\ history = ev.history
          /\ current_path = ev.path /\ commands = ev.commands
    /\ (InRequest /\ ev = NoKey) => (line = <<>> /\ pos = 0)

\* C29: a line that was not empty was interrupted, and the loop is about to
\* prompt again
C29_Witness ==
    ev.c = ETX /\ ev.line # <<>> /\ pc = "e_prompt" /\ line = <<>>

\* an input request starts after an interrupt
C29_WitnessNextRequest ==
    InRequest /\ ev = NoKey /\ going_quit /\ line = <<>> /\ pos = 0


\* C30: a printable character other than `?` goes in at the cursor (what
\* was before the cursor, the character, what was after it) and the cursor
\* moves one to the right; Backspace with the cursor past 0 removes exactly
\* the character before the cursor and moves the cursor one to the left,
\* and with the cursor at 0 changes nothing; the other characters keep
\* their order
C30_InsertAndBackspace ==
    /\ ev.key = "insert" =>
          /\ InRequest
          /\ line = SubSeq(ev.line, 1, ev.pos) \o <<ev.c>>
                       \o SubSeq(ev.line, ev.pos + 1, Len(ev.line))
          /\ pos = ev.pos + 1
    /\ (ev.key = "backspace" /\ ev.pos > 0) =>
          /\ InRequest
          /\ line = SubSeq(ev.line, 1, ev.pos - 1)
                       \o SubSeq(ev.line, ev.pos + 1, Len(ev.line))
          /\ pos = ev.pos - 1
    /\ (ev.key = "backspace" /\ ev.pos = 0) =>
          /\ InRequest
          /\ line = ev.line /\ pos = 0

\* C30: a character was inserted with the cursor inside the line
C30_Witness ==
    /\ ev.key = "insert" /\ Printable(ev.c) /\ ev.c # QM
    /\ 0 < ev.pos /\ ev.pos < Len(ev.line)
    /\ Len(line) = Len(ev.line) + 1 /\ line[ev.pos + 1] = ev.c

\* Backspace removed a character with the cursor inside the line
C30_WitnessBackspace ==
    /\ ev.key = "backspace" /\ 0 < ev.pos /\ ev.pos < Len(ev.line)
    /\ Len(line) = Len(ev.line) - 1

\* Backspace was pressed at the start of a line that is not empty
C30_WitnessAtStart ==
    ev.key = "backspace" /\ ev.pos = 0 /\ ev.line # <<>> /\ line = ev.line


----------------------------------------------------------------------------
(* The redraw of the line. *)

\* the last key made the editor call refresh_line
Redrew ==
    \/ ev.key \in {"insert", "tab", "end"}
    \/ ev.key = "backspace" /\ ev.pos > 0
    \/ ev.key = "up" /\ ev.history_index > 0
    \/ ev.key = "down" /\ ev.history_index < Len(ev.history)

\* the longest prompt + buffer shown so far in this input request
Widest == IF Len(prompt) + Len(line) > ev.widest
          THEN Len(prompt) + Len(line) ELSE ev.widest

\* C31: the row of the input line holds exactly the prompt followed by the
\* buffer, with nothing left over from a longer line shown earlier in the
\* request, and the width a redraw has cleared is at least the longest
\* prompt + buffer shown so far in the request
C31_NoStaleCharacters ==
    /\ InRequest => shown = Len(prompt) + Len(line)
    /\ (InRequest /\ Redrew) => max_size_to_clear_in_a_line >= Widest

\* C31: a history key replaced the line by one at least two characters
\* shorter, and the row holds nothing beyond the new line
C31_Witness ==
    /\ InRequest /\ Redrew /\ ev.key \in {"up", "down"}
    /\ Len(line) + 2 <= Len(ev.line)
    /\ shown = Len(prompt) + Len(line)


----------------------------------------------------------------------------
(* The choice of the completion candidates. *)

\* the elements of a sequence
Range(seq) == { seq[i] : i \in 1..Len(seq) }

\* the candidates the four rules give for a buffer: (1) entry names for a
\* first token still being typed, (2) child directories after cd, (3) the
\* option strings of the command the first token names, (4) nothing
RuleCandidates(cmds, path, buffer) ==
    LET tokens  == Tokens(buffer)
        partial == PartialToken(buffer)
        dirs    == { Chars(n) : n \in SubDirs(Resolve(path)) }
        entries == { Chars(n) : n \in DOMAIN cmds } \cup dirs
    IN  IF Len(tokens) <= 1 /\ (buffer = <<>> \/ buffer[Len(buffer)] # " ")
        THEN { n \in entries : startswith(n, partial) }
        ELSE IF tokens # <<>> /\ tokens[1] = W_cd /\ Len(tokens) <= 2
        THEN { n \in dirs : startswith(n, partial) }
        ELSE IF tokens # <<>> /\ Str(tokens[1]) \in DOMAIN cmds
        THEN { o \in Range(get_command_options(cmds, Str(tokens[1]))) :
                 startswith(o, partial) }
        ELSE {}

\* C32: the candidates Tab collects are the ones the rules give, taken in
\* order: entry names while the first token is being typed, child
\* directories after cd, the options of the command named first, else none
C32_CandidateRules ==
    ev.key = "tab" =>
        Range(ev.completions) = RuleCandidates(ev.commands, ev.path, ev.line)


----------------------------------------------------------------------------
(* Sub-namespaces and the snapshot. *)

\* a directory that holds a leaf command or a directory
HoldsSomething(d) == LeafFiles(d) # {} \/ SubDirs(d) # {}

\* C33: a child directory is offered as a sub-namespace only if it holds at
\* least one leaf command or a further directory; an empty child directory
\* is no sub-namespace entry
C33_EmptyDirectoryNotOffered ==
    \A n \in Range(get_available_dirs(current_path)) :
        HoldsSomething(Resolve(current_path) \o <<n>>)


----------------------------------------------------------------------------
(* The exit keyword and blank lines. *)

\* C34: a submitted line that is `exit` once its surrounding whitespace is
\* stripped ends the loop and is not dispatched, in every location and after
\* any earlier commands; a line that is empty or holds only whitespace is
\* neither dispatched nor recorded, and the loop goes on
C34_ExitKeywordAndBlankLines ==
    /\ (ev.key = "enter" /\ Tokens(ev.line) = <<W_exit>>) =>
          /\ pc \in {"e_eval", "e_done"}
          /\ pc = "e_done" => exit_reason = "exit"
          /\ last_op = NoOp
          /\ current_path = ev.path /\ commands = ev.commands
    /\ (ev.key = "enter" /\ Tokens(ev.line) = <<>>) =>
          /\ pc \in {"e_eval", "e_prompt"}
          /\ exit_reason = "none"
          /\ last_op = NoOp
          /\ history = ev.history
          /\ current_path = ev.path /\ commands = ev.commands

\* C34: the session has ended by the exit keyword in a sub-namespace, after
\* other lines were submitted
C34_Witness ==
    /\ ev.key = "enter" /\ Tokens(ev.line) = <<W_exit>>
    /\ pc = "e_done" /\ exit_reason = "exit"
    /\ current_path # <<"cmd">> /\ Len(ev.history) >= 1

\* a line of one blank was submitted and the loop is about to prompt again
C34_WitnessBlank ==
    ev.key = "enter" /\ ev.line = <<" ">> /\ pc = "e_prompt" /\ history # <<>>


----------------------------------------------------------------------------
(* The byte read after the first interrupt. *)

NoChildren(path) == SubDirs(Resolve(path)) = {}

C36_WitnessUp ==
    /\ Dispatched /\ NoChildren(last_op.from)
    /\ last_op.tokens = <<W_up>> /\ last_op.status = "nav"
    /\ "cd" \in DOMAIN commands


----------------------------------------------------------------------------
(* The terminal mode outside the reads. *)

\* a byte read is in progress: getch has switched to raw mode and waits
Reading == pc \in {"read_c", "read_q"}

\* C37: the terminal is in raw mode only while a byte read is in progress;
\* in every other state of the shell (prompting, dispatching, leaving) it is
\* in the mode captured at construction
C37_RawOnlyWhileReading ==
    ~Reading => term = old_settings


----------------------------------------------------------------------------
(* The history cursor. *)

\* the last key was Up or Down and it moved the history cursor
HistoryMoved == ev.key \in {"up", "down"} /\ history_index # ev.history_index

\* C38: the history cursor is at least 0 and at most the length of the
\* history in every state, it is the length of the history at the start of
\* every input request, and when it is below the length of the history after
\* an Up or Down key, the buffer was loaded from the entry it points at: the
\* key that moved it there put that entry into the buffer, and a key that
\* did not move it left the buffer as it was
C38_HistoryCursor ==
    /\ 0 <= history_index /\ history_index <= Len(history)
    /\ (InRequest /\ ev = NoKey) => history_index = Len(history)
    /\ (InRequest /\ ev.key \in {"up", "down"} /\ history_index < Len(history)) =>
          IF HistoryMoved
          THEN line = history[history_index + 1] /\ pos = Len(line)
          ELSE line = ev.line /\ pos = ev.pos

\* C38: an Up key moved the cursor onto an entry that is not the newest and
\* not the one shown before, and the buffer holds that entry
C38_Witness ==
    /\ InRequest /\ HistoryMoved /\ ev.key = "up"
    /\ history_index + 1 < Len(history)
    /\ line = history[history_index + 1] /\ line # ev.line

\* an Up key at the oldest entry left a buffer that had been edited
C38_WitnessEdited ==
    /\ InRequest /\ ev.key = "up" /\ ~HistoryMoved
    /\ history_index < Len(history)
    /\ line # history[history_index + 1]


----------------------------------------------------------------------------
(* Escape sequences the editor does not know. *)

\* the third bytes of the escape sequences the editor knows
KnownFinals == {"A", "B", "C", "D", "H", "F"}

\* the step leaves the buffer, the cursor, the history and its cursor alone,
\* stays in the input request and takes n bytes from the input
Skips(n) ==
    /\ stdin' = SubSeq(stdin, n + 1, Len(stdin))
    /\ line' = line /\ pos' = pos
    /\ history' = history /\ history_index' = history_index
    /\ pc' = "e_read"

\* C39: an escape sequence other than ESC [ A/B/C/D/H/F leaves the buffer,
\* the cursor and the history cursor unchanged and consumes exactly its
\* bytes: two for ESC and a byte other than `[`, three for ESC [ and an
\* unknown byte; none of them is inserted
C39_UnknownEscapeSkipped ==
    [][ (pc = "e_read" /\ Len(stdin) >= 2 /\ Head(stdin) = ESC) =>
            IF stdin[2] # "["
            THEN Skips(2)
            ELSE (Len(stdin) >= 3 /\ stdin[3] \notin KnownFinals) => Skips(3) ]_vars

\* C39: ESC x was read with `z` in the buffer; the buffer is as it was and
\* the next byte of the input is the one after x
C39_Witness ==
    /\ InRequest /\ ev.key = "ignored" /\ ev.c = ESC
    /\ ev.line = <<"z">> /\ line = <<"z">> /\ pos = 1
    /\ stdin # <<>> /\ Head(stdin) = SOH

\* ESC [ Z was read and the next byte of the input is the one after Z
C39_WitnessBracket ==
    /\ InRequest /\ ev.key = "ignored" /\ ev.c = ESC
    /\ line = <<"z">> /\ stdin # <<>> /\ Head(stdin) = EOT

====
